---------------------------- MODULE Spec2Model ----------------------------
(***************************************************************************)
(* Model of the runc client library of rust-extensions.                    *)
(*                                                                         *)
(* Part 1 (SpecIO): crates/runc-rust/src/io.rs, the pipe-backed RuncIO.    *)
(*   The parent process' descriptor table is modelled explicitly: every    *)
(*   descriptor number holds either nothing, one end of a pipe opened by   *)
(*   Pipe::new, or a descriptor of another owner in the same process.      *)
(*   Pipe values hold raw descriptor NUMBERS (io.rs:198-202), so a Pipe    *)
(*   value, its clone and a File made by File::from_raw_fd can all name    *)
(*   the same number; each of them closes that number when it is dropped.  *)
(* Part 2 (SpecCmd): crates/runc-rust/src/lib.rs, RuncClient::command_raw  *)
(*   and RuncAsyncClient::command.                                         *)
(* Part 3 (SpecArgs): lib.rs, the argument vector of each verb method.     *)
(* Part 4 (SpecQuery): lib.rs, list and ps from the call to the parsed     *)
(*   collection.                                                           *)
(* Part 5 (SpecReg): crates/shim-runc/src/container.rs, the process        *)
(*   registry of a Container.                                              *)
(* Part 6 (SpecStore): container.rs, the options and runtime files of a    *)
(*   bundle directory.                                                     *)
(***************************************************************************)
EXTENDS Integers, Sequences, FiniteSets, TLC

VARIABLES
    fdtab,      \* parent descriptor table: number -> what the number holds
    ios,        \* the RuncPipedIO values: Orig (made by new) and Copy (its clone)
    cmd,        \* the Command that set / set_tk wires
    lastOp,     \* the operation that produced this state, and what it observed
    call,       \* invoker: the command call in progress
    child,      \* invoker: the external binary spawned for the call
    result,     \* invoker: what the call returned
    argv,       \* verb methods: the last call and the vector it handed to the binary
    prev,       \* verb methods: the call before it, when it had the same inputs
    query,      \* list / ps: the last call, what the binary did and what came back
    container,  \* registry: the Container (id, primary process, secondary map, mutex)
    ret,        \* registry: what the last registry operation returned
    task,       \* registry: the start / kill / delete / pid in progress
    store       \* persisted state: the files of the bundle directory and the last result

vars == <<fdtab, ios, cmd, lastOp, call, child, result, argv, prev, query, container, ret,
          task, store>>
ioVars == <<fdtab, ios, cmd, lastOp>>
cmdVars == <<call, child, result>>
argVars == <<argv, prev>>
regVars == <<container, ret, task>>

-----------------------------------------------------------------------------
(* Bounds *)

\* Highest descriptor number of the parent's table (RLIMIT_NOFILE - 1).
MaxFd == 9
\* How many descriptors other owners of the process hold at the same time.
MaxOther == 1
\* Longest text the external binary writes to one stream.
MaxLen == 2
\* Largest exit status the external binary returns.
MaxStatus == 2
MaxOut == 3
\* Longest runtime name written to a bundle directory.
MaxName == 2

-----------------------------------------------------------------------------
(* Descriptor table *)

\* 0, 1, 2 are the process' own standard streams; pipes get numbers from 3 up.
FirstFd == 3
Fds == FirstFd..MaxFd

Streams == {"stdin", "stdout", "stderr"}

Free == [kind |-> "free", io |-> 0, stream |-> "-", end |-> "-"]
Other == [kind |-> "other", io |-> 0, stream |-> "-", end |-> "-"]
\* The descriptor opened by Pipe::new for stream s of the RuncPipedIO built in slot i.
PipeEnd(i, s, e) == [kind |-> "pipe", io |-> i, stream |-> s, end |-> e]

FreeFds(t) == {n \in Fds : t[n] = Free}
\* POSIX: a new descriptor gets the lowest free number.
LowestFree(t) == CHOOSE n \in FreeFds(t) : \A m \in FreeFds(t) : n <= m

\* Option<RawFd>::None and Option<Pipe>::None.
None == -1
NoPipe == [read_fd |-> None, write_fd |-> None, owner |-> 0, stream |-> "-"]

\* close(2) on a number; errors (EBADF) are ignored by File's drop.
CloseFd(t, n) == [t EXCEPT ![n] = Free]

\* A sequence of File drops, each <<number, descriptor the holder believes it owns>>.
\* stale: a close was issued on a descriptor that had already been closed.
\* foreign: a close hit a number that by then held somebody else's descriptor.
RECURSIVE CloseAll(_, _)
CloseAll(t, cs) ==
    IF cs = << >> THEN [tab |-> t, stale |-> FALSE, foreign |-> FALSE]
    ELSE LET c == Head(cs)
             rest == CloseAll(CloseFd(t, c.fd), Tail(cs))
         IN [tab |-> rest.tab,
             stale |-> rest.stale \/ t[c.fd] # c.ident,
             foreign |-> rest.foreign \/ (t[c.fd] # Free /\ t[c.fd] # c.ident)]

-----------------------------------------------------------------------------
(* Pipe *)

\* Pipe::new: nix::unistd::pipe() takes the two lowest free numbers, or fails.
PipeNew(t, i, s) ==
    IF Cardinality(FreeFds(t)) < 2
    THEN [ok |-> FALSE, tab |-> t, pipe |-> NoPipe]
    ELSE LET r == LowestFree(t)
             t1 == [t EXCEPT ![r] = PipeEnd(i, s, "r")]
             w == LowestFree(t1)
         IN [ok |-> TRUE,
             tab |-> [t1 EXCEPT ![w] = PipeEnd(i, s, "w")],
             pipe |-> [read_fd |-> r, write_fd |-> w, owner |-> i, stream |-> s]]

\* Pipe::close_write: drop(File::from_raw_fd(self.write_fd)).
close_write(p) == << [fd |-> p.write_fd, ident |-> PipeEnd(p.owner, p.stream, "w")] >>
\* Pipe::close_read: drop(File::from_raw_fd(self.read_fd)).
close_read(p) == << [fd |-> p.read_fd, ident |-> PipeEnd(p.owner, p.stream, "r")] >>
\* (mutant) a close that forgets the write end
PipeClose_read_only(p) == close_read(p)
\* Pipe::close: close_read then close_write.
PipeClose(p) == close_read(p) \o close_write(p)
\* (mutant) a Pipe without a Drop implementation
PipeDrop_missing(p) == << >>
\* Drop for Pipe: self.close().
PipeDrop(p) == PipeClose(p)


-----------------------------------------------------------------------------
(* RuncPipedIO *)

Orig == 1
Copy == 2
IOs == {Orig, Copy}

StreamOrder == <<"stdin", "stdout", "stderr">>

\* IOOption: which of the three pipes to open.
IOOption == [Streams -> BOOLEAN]

\* Where RuncPipedIO::new is made to fail by the operating system
\* (pipe: ENFILE from pipe(2); fchown: EPERM from fchown(2)).
NoFail == [at |-> "-", step |-> "-"]
FailPoints == {NoFail} \cup [at : Streams, step : {"pipe", "fchown"}]

NoPipes == [s \in Streams |-> NoPipe]

\* The `?` early return of RuncPipedIO::new: the locals go out of scope in
\* reverse order of declaration, and each Pipe among them is dropped.
RECURSIVE DropLocals(_, _)
DropLocals(made, k) ==
    IF k = 0 THEN << >>
    ELSE (IF made[StreamOrder[k]] # NoPipe THEN PipeDrop(made[StreamOrder[k]]) ELSE << >>)
         \o DropLocals(made, k - 1)

\* RuncPipedIO::new from its k-th stream on; made holds the pipes opened so far.
RECURSIVE NewFrom(_, _, _, _, _, _)
NewFrom(t, i, opts, fail, k, made) ==
    IF k > 3 THEN [ok |-> TRUE, tab |-> t, pipes |-> made, opened |-> made]
    ELSE LET s == StreamOrder[k] IN
         IF ~opts[s] THEN NewFrom(t, i, opts, fail, k + 1, made)
         ELSE LET pr == PipeNew(t, i, s) IN
              IF ~pr.ok \/ fail = [at |-> s, step |-> "pipe"]
              THEN \* Pipe::new()? : nothing was opened for this stream
                   [ok |-> FALSE, tab |-> CloseAll(t, DropLocals(made, 3)).tab,
                    pipes |-> NoPipes, opened |-> made]
              ELSE IF fail = [at |-> s, step |-> "fchown"]
              THEN \* fchown(..)? : the pipe of this stream is a local too
                   [ok |-> FALSE,
                    tab |-> CloseAll(pr.tab, DropLocals([made EXCEPT ![s] = pr.pipe], 3)).tab,
                    pipes |-> NoPipes, opened |-> [made EXCEPT ![s] = pr.pipe]]
              ELSE NewFrom(pr.tab, i, opts, fail, k + 1, [made EXCEPT ![s] = pr.pipe])

\* RuncPipedIO::new(uid, gid, opts)
RuncPipedIO_new(t, i, opts, fail) == NewFrom(t, i, opts, fail, 1, NoPipes)

\* RuncIO::stdin / stdout / stderr for RuncPipedIO
stdin(io) == IF io.pipes["stdin"] # NoPipe THEN io.pipes["stdin"].write_fd ELSE None
\* (mutant) stdout() reading the stdin field
stdout_of_stdin(io) == IF io.pipes["stdin"] # NoPipe THEN io.pipes["stdin"].read_fd ELSE None
stdout(io) == IF io.pipes["stdout"] # NoPipe THEN io.pipes["stdout"].read_fd ELSE None
stderr(io) == IF io.pipes["stderr"] # NoPipe THEN io.pipes["stderr"].read_fd ELSE None

\* RuncIO::close: close() of every pipe that is present, stdin first.
RECURSIVE ClosePresent(_, _)
ClosePresent(pipes, k) ==
    IF k > 3 THEN << >>
    ELSE (IF pipes[StreamOrder[k]] # NoPipe THEN PipeClose(pipes[StreamOrder[k]]) ELSE << >>)
         \o ClosePresent(pipes, k + 1)
RuncPipedIO_close(io) == ClosePresent(io.pipes, 1)

\* Dropping a RuncPipedIO drops its fields in declaration order.
RECURSIVE DropFields(_, _)
DropFields(pipes, k) ==
    IF k > 3 THEN << >>
    ELSE (IF pipes[StreamOrder[k]] # NoPipe THEN PipeDrop(pipes[StreamOrder[k]]) ELSE << >>)
         \o DropFields(pipes, k + 1)
RuncPipedIO_drop(io) == DropFields(io.pipes, 1)

\* (mutant) close_after_start that forgets stderr
close_after_start_stdout_only(io) ==
    IF io.pipes["stdout"] # NoPipe THEN close_write(io.pipes["stdout"]) ELSE << >>
\* (mutant) close_after_start closing both ends
close_after_start_both(io) ==
    (IF io.pipes["stdout"] # NoPipe THEN PipeClose(io.pipes["stdout"]) ELSE << >>)
    \o (IF io.pipes["stderr"] # NoPipe THEN PipeClose(io.pipes["stderr"]) ELSE << >>)
\* RuncIO::close_after_start: close_write of stdout and of stderr, when present.
close_after_start(io) ==
    (IF io.pipes["stdout"] # NoPipe THEN close_write(io.pipes["stdout"]) ELSE << >>)
    \o (IF io.pipes["stderr"] # NoPipe THEN close_write(io.pipes["stderr"]) ELSE << >>)

\* The end of stream s that set / set_tk wrap in a File for the child.
ChildEnd(s) == IF s = "stdin" THEN "r" ELSE "w"
\* (mutant) every stream wired to its write end
ChildFd_write(p) == p.write_fd
ChildFd(p) == IF p.stream = "stdin" THEN p.read_fd ELSE p.write_fd

\* Stdio values of a Command: inherit, null, or a File owning a descriptor number.
StdioInherit == [kind |-> "inherit", fd |-> None, ident |-> Free]
StdioNull == [kind |-> "null", fd |-> None, ident |-> Free]
StdioFile(p) == [kind |-> "file", fd |-> ChildFd(p),
                 ident |-> PipeEnd(p.owner, p.stream, ChildEnd(p.stream))]

\* Dropping a Stdio value: a File closes its number, the others hold nothing.
StdioDrop(st) == IF st.kind = "file" THEN << [fd |-> st.fd, ident |-> st.ident] >> ELSE << >>

\* RuncIO::set / set_tk: for each present pipe, File::from_raw_fd of the child's
\* end, stored in the command; the Stdio it replaces is dropped.
RECURSIVE Wire(_, _, _)
Wire(io, c, k) ==
    IF k > 3 THEN [stdio |-> c, closes |-> << >>]
    ELSE LET s == StreamOrder[k]
             p == io.pipes[s]
         IN IF p = NoPipe THEN Wire(io, c, k + 1)
            ELSE LET rest == Wire(io, [c EXCEPT ![s] = StdioFile(p)], k + 1)
                 IN [stdio |-> rest.stdio, closes |-> StdioDrop(c[s]) \o rest.closes]
set(io, c) == Wire(io, c, 1)
set_tk(io, c) == Wire(io, c, 1)

\* Dropping a Command drops its three Stdio values.
CommandDrop(c) == StdioDrop(c["stdin"]) \o StdioDrop(c["stdout"]) \o StdioDrop(c["stderr"])

-----------------------------------------------------------------------------
(* State of the I/O layer *)

\* A RuncPipedIO value: its three Option<Pipe> fields, and for the properties the
\* options it was built from and whether close() has been called on it.
NoIO == [state |-> "absent", pipes |-> NoPipes, opts |-> [s \in Streams |-> FALSE], closed |-> FALSE]
NoCmd == [state |-> "absent", kind |-> "-", stdio |-> [s \in Streams |-> StdioInherit]]

\* lastOp: op, the RuncPipedIO it was applied to, whether it returned Ok, what its
\* close calls hit (see CloseAll), how many pipes a new had opened when it
\* returned, and whether close() had been called on that RuncPipedIO before.
Op(name, i, ok, stale, foreign, opened, again) ==
    [op |-> name, io |-> i, ok |-> ok, stale |-> stale, foreign |-> foreign,
     opened |-> opened, again |-> again]

Present(pipes) == {s \in Streams : pipes[s] # NoPipe}

\* let io = RuncPipedIO::new(uid, gid, opts)
New(opts, fail) ==
    /\ ios[Orig].state = "absent"
    /\ LET r == RuncPipedIO_new(fdtab, Orig, opts, fail) IN
       /\ fdtab' = r.tab
       /\ ios' = IF r.ok
                 THEN [ios EXCEPT ![Orig] = [state |-> "live", pipes |-> r.pipes, opts |-> opts, closed |-> FALSE]]
                 ELSE ios
       /\ lastOp' = Op("new", Orig, r.ok, FALSE, FALSE, Cardinality(Present(r.opened)), FALSE)
    /\ UNCHANGED <<cmd, cmdVars, argVars, query, regVars, store>>

\* let copy = io.clone()  (derive(Clone): the descriptor numbers are copied)
Clone ==
    /\ ios[Orig].state = "live"
    /\ ios[Copy].state = "absent"
    /\ ios' = [ios EXCEPT ![Copy] = [state |-> "live", pipes |-> ios[Orig].pipes, opts |-> ios[Orig].opts, closed |-> FALSE]]
    /\ lastOp' = Op("clone", Copy, TRUE, FALSE, FALSE, 0, FALSE)
    /\ UNCHANGED <<fdtab, cmd, cmdVars, argVars, query, regVars, store>>

\* io.close()
Close(i) ==
    /\ ios[i].state = "live"
    /\ LET r == CloseAll(fdtab, RuncPipedIO_close(ios[i])) IN
       /\ fdtab' = r.tab
       /\ lastOp' = Op("close", i, TRUE, r.stale, r.foreign, 0, ios[i].closed)
    /\ ios' = [ios EXCEPT ![i].closed = TRUE]
    /\ UNCHANGED <<cmd, cmdVars, argVars, query, regVars, store>>

\* drop(io)
Drop(i) ==
    /\ ios[i].state = "live"
    /\ LET r == CloseAll(fdtab, RuncPipedIO_drop(ios[i])) IN
       /\ fdtab' = r.tab
       /\ lastOp' = Op("drop", i, TRUE, r.stale, r.foreign, 0, ios[i].closed)
    /\ ios' = [ios EXCEPT ![i].state = "dropped"]
    /\ UNCHANGED <<cmd, cmdVars, argVars, query, regVars, store>>

\* io.close_after_start()
CloseAfterStart(i) ==
    /\ ios[i].state = "live"
    /\ LET r == CloseAll(fdtab, close_after_start(ios[i])) IN
       /\ fdtab' = r.tab
       /\ lastOp' = Op("close_after_start", i, TRUE, r.stale, r.foreign, 0, ios[i].closed)
    /\ UNCHANGED <<ios, cmd, cmdVars, argVars, query, regVars, store>>

\* let mut cmd = Command::new(..) (std or tokio), its stdio at the default or null
NewCmd(kind, st) ==
    /\ cmd.state = "absent"
    /\ cmd' = [state |-> "built", kind |-> kind, stdio |-> [s \in Streams |-> st]]
    /\ lastOp' = Op("new_cmd", 0, TRUE, FALSE, FALSE, 0, FALSE)
    /\ UNCHANGED <<fdtab, ios, cmdVars, argVars, query, regVars, store>>

\* io.set(&mut cmd)
Set(i) ==
    /\ ios[i].state = "live"
    /\ cmd.state # "absent" /\ cmd.kind = "std"
    /\ LET w == set(ios[i], cmd.stdio)
           r == CloseAll(fdtab, w.closes) IN
       /\ cmd' = [cmd EXCEPT !.stdio = w.stdio]
       /\ fdtab' = r.tab
       /\ lastOp' = Op("set", i, TRUE, r.stale, r.foreign, 0, ios[i].closed)
    /\ UNCHANGED <<ios, cmdVars, argVars, query, regVars, store>>

\* io.set_tk(&mut cmd)
SetTk(i) ==
    /\ ios[i].state = "live"
    /\ cmd.state # "absent" /\ cmd.kind = "tk"
    /\ LET w == set_tk(ios[i], cmd.stdio)
           r == CloseAll(fdtab, w.closes) IN
       /\ cmd' = [cmd EXCEPT !.stdio = w.stdio]
       /\ fdtab' = r.tab
       /\ lastOp' = Op("set_tk", i, TRUE, r.stale, r.foreign, 0, ios[i].closed)
    /\ UNCHANGED <<ios, cmdVars, argVars, query, regVars, store>>

\* cmd.spawn(): the child gets copies of the wired descriptors; the parent's
\* table is unchanged. A File whose number is no longer open fails the spawn.
SpawnCmd ==
    /\ cmd.state = "built"
    /\ LET ok == \A s \in Streams : cmd.stdio[s].kind = "file" => fdtab[cmd.stdio[s].fd] # Free IN
       /\ cmd' = IF ok THEN [cmd EXCEPT !.state = "spawned"] ELSE cmd
       /\ lastOp' = Op("spawn", 0, ok, FALSE, FALSE, 0, FALSE)
    /\ UNCHANGED <<fdtab, ios, cmdVars, argVars, query, regVars, store>>

\* drop(cmd): the Files it holds close their numbers
DropCmd ==
    /\ cmd.state # "absent"
    /\ LET r == CloseAll(fdtab, CommandDrop(cmd.stdio)) IN
       /\ fdtab' = r.tab
       /\ lastOp' = Op("drop_cmd", 0, TRUE, r.stale, r.foreign, 0, FALSE)
    /\ cmd' = NoCmd
    /\ UNCHANGED <<ios, cmdVars, argVars, query, regVars, store>>

\* std::mem::forget(cmd), as the doc comment of RuncIO asks for
ForgetCmd ==
    /\ cmd.state # "absent"
    /\ cmd' = NoCmd
    /\ lastOp' = Op("forget_cmd", 0, TRUE, FALSE, FALSE, 0, FALSE)
    /\ UNCHANGED <<fdtab, ios, cmdVars, argVars, query, regVars, store>>

\* Another owner in the process opens a descriptor: it gets the lowest free number.
OtherOpen ==
    /\ Cardinality({n \in Fds : fdtab[n] = Other}) < MaxOther
    /\ FreeFds(fdtab) # {}
    /\ fdtab' = [fdtab EXCEPT ![LowestFree(fdtab)] = Other]
    /\ lastOp' = Op("other_open", 0, TRUE, FALSE, FALSE, 0, FALSE)
    /\ UNCHANGED <<ios, cmd, cmdVars, argVars, query, regVars, store>>

\* The other owner closes a descriptor of its own.
OtherClose(n) ==
    /\ fdtab[n] = Other
    /\ fdtab' = CloseFd(fdtab, n)
    /\ lastOp' = Op("other_close", 0, TRUE, FALSE, FALSE, 0, FALSE)
    /\ UNCHANGED <<ios, cmd, cmdVars, argVars, query, regVars, store>>

NextIO ==
    \/ \E opts \in IOOption, fail \in FailPoints : New(opts, fail)
    \/ Clone
    \/ \E i \in IOs : Close(i)
    \/ \E i \in IOs : Drop(i)
    \/ \E i \in IOs : CloseAfterStart(i)
    \/ \E kind \in {"std", "tk"}, st \in {StdioInherit, StdioNull} : NewCmd(kind, st)
    \/ \E i \in IOs : Set(i)
    \/ \E i \in IOs : SetTk(i)
    \/ SpawnCmd
    \/ DropCmd
    \/ ForgetCmd
    \/ OtherOpen
    \/ \E n \in Fds : OtherClose(n)

-----------------------------------------------------------------------------
(* Properties of the I/O layer (checked under SpecIO) *)

Accessor(io, s) ==
    CASE s = "stdin" -> stdin(io)
      [] s = "stdout" -> stdout(io)
      [] s = "stderr" -> stderr(io)

\* The end the parent keeps: it writes the child's stdin and reads its stdout/stderr.
NearEnd(s) == IF s = "stdin" THEN "w" ELSE "r"

NotWired == \A s \in Streams : cmd.stdio[s].kind # "file"

\* The RuncPipedIO values that will close number n when they are closed or dropped.
PipeOwners(n) ==
    {i \in IOs : /\ ios[i].state = "live"
                 /\ \E s \in Streams : /\ ios[i].pipes[s] # NoPipe
                                       /\ n \in {ios[i].pipes[s].read_fd, ios[i].pipes[s].write_fd}}

\* C1: for any sequence of set/set_tk, close_after_start, close and drop applied
\* to a RuncPipedIO (no clone involved) and drop of the Command it was wired
\* into, no close is ever issued on a pipe descriptor that was closed before:
\* every descriptor opened by Pipe::new is closed at most once.
C1_ClosedAtMostOnce == ios[Copy].state = "absent" => ~lastOp.stale

\* C2: a close() that follows an earlier close() of the same RuncPipedIO, and the
\* drop after it, never closes a descriptor the RuncPipedIO did not open, even
\* when the numbers were given to another owner in between.
C2_CloseIdempotent ==
    (lastOp.op \in {"close", "drop"} /\ lastOp.again) => ~lastOp.foreign

\* C3: while no end has been handed to a Command, every open pipe descriptor has
\* exactly one RuncPipedIO responsible for closing it; and closing or dropping a
\* clone leaves the descriptors of an original that was never closed open.
C3_ExclusiveOwner ==
    /\ NotWired => \A n \in Fds : fdtab[n].kind = "pipe" => Cardinality(PipeOwners(n)) = 1
    /\ (/\ lastOp.op \in {"close", "drop"} /\ lastOp.io = Copy
        /\ ios[Orig].state = "live" /\ ~ios[Orig].closed)
       => \A s \in Present(ios[Orig].pipes) :
             fdtab[ios[Orig].pipes[s].read_fd] = PipeEnd(Orig, s, "r")

\* C4: right after RuncPipedIO::new(opts) returned Ok, the accessor of a stream
\* that was not requested is None, and the accessor of a requested stream is an
\* open descriptor (the parent's end of that stream's pipe) different from the
\* accessor of every other stream.
C4_Accessors ==
    (lastOp.op = "new" /\ lastOp.ok) =>
        \A s \in Streams :
            IF ios[Orig].opts[s]
            THEN /\ Accessor(ios[Orig], s) \in Fds
                 /\ fdtab[Accessor(ios[Orig], s)] = PipeEnd(Orig, s, NearEnd(s))
                 /\ \A s2 \in Streams \ {s} : Accessor(ios[Orig], s2) # Accessor(ios[Orig], s)
            ELSE Accessor(ios[Orig], s) = None

C4_Witness ==
    /\ lastOp.op = "new" /\ lastOp.ok
    /\ ios[Orig].opts = [s \in Streams |-> s # "stdin"]
    /\ stdin(ios[Orig]) = None /\ stdout(ios[Orig]) # None /\ stderr(ios[Orig]) # None
    /\ \E n \in Fds : fdtab[n] = Other

\* C5: when RuncPipedIO::new fails, at whichever step, no pipe descriptor is left
\* open and no RuncPipedIO value exists.
C5_NoHalfOpen ==
    (lastOp.op = "new" /\ ~lastOp.ok) =>
        /\ ios[Orig].state = "absent"
        /\ \A n \in Fds : fdtab[n].kind # "pipe"

\* new failed at the fchown of the third pipe, after three pipes had been opened
C5_Witness ==
    /\ lastOp.op = "new" /\ ~lastOp.ok /\ lastOp.opened = 3
    /\ ios[Orig].state = "absent"

\* The numbers close_after_start closes: the write ends of stdout and stderr.
WriteEnds(io) == {io.pipes[s].write_fd : s \in Present(io.pipes) \ {"stdin"}}

\* C6: a close_after_start step frees the write-end numbers of the present
\* stdout and stderr pipes and changes no other entry of the descriptor table
\* (so the parent's ends stay as they were), and the accessors return the same
\* values after it as before.
C6_CloseAfterStartFrame ==
    [][\A i \in IOs :
        (lastOp'.op = "close_after_start" /\ lastOp'.io = i) =>
            /\ \A n \in WriteEnds(ios[i]) : fdtab'[n] = Free
            /\ \A n \in Fds \ WriteEnds(ios[i]) : fdtab'[n] = fdtab[n]
            /\ \A s \in Streams : Accessor(ios'[i], s) = Accessor(ios[i], s)
            /\ ios' = ios]_vars

\* close_after_start after the child was started, on intact stdout and stderr
\* pipes: the write ends are gone, the three parent ends are still open
C6_Witness ==
    /\ lastOp.op = "close_after_start" /\ lastOp.io = Orig /\ ~lastOp.stale
    /\ cmd.state = "spawned"
    /\ Present(ios[Orig].pipes) = Streams
    /\ \A s \in Streams : fdtab[Accessor(ios[Orig], s)] = PipeEnd(Orig, s, NearEnd(s))
    /\ fdtab[ios[Orig].pipes["stdout"].write_fd] = Free
    /\ fdtab[ios[Orig].pipes["stderr"].write_fd] = Free

\* C7: a set / set_tk step stores, for each stream the RuncPipedIO was built
\* with, a File of the child's end of that stream's pipe (read end for stdin,
\* write end for stdout and stderr) in the command, the accessor of the stream
\* being the other end of the same pipe; the command's setting of a stream that
\* was not requested is left as it was.
C7_Wiring ==
    [][\A i \in IOs :
        (lastOp'.op \in {"set", "set_tk"} /\ lastOp'.io = i) =>
            \A s \in Streams :
                IF ios[i].opts[s]
                THEN LET p == ios[i].pipes[s]
                         f == cmd'.stdio[s]
                         a == Accessor(ios[i], s)
                     IN /\ f.kind = "file"
                        /\ f.fd = (IF s = "stdin" THEN p.read_fd ELSE p.write_fd)
                        /\ a = (IF s = "stdin" THEN p.write_fd ELSE p.read_fd)
                        /\ a # f.fd
                        /\ (fdtab'[f.fd].kind = "pipe" /\ fdtab'[a].kind = "pipe") =>
                              /\ fdtab'[f.fd] = PipeEnd(Orig, s, ChildEnd(s))
                              /\ fdtab'[a] = PipeEnd(Orig, s, NearEnd(s))
                ELSE cmd'.stdio[s] = cmd.stdio[s]]_vars

\* set on a command preset to null, by a RuncPipedIO with stdout only: stdout is
\* wired to the open write end, stdin and stderr are still null
C7_Witness ==
    /\ lastOp.op \in {"set", "set_tk"} /\ lastOp.io = Orig
    /\ Present(ios[Orig].pipes) = {"stdout"}
    /\ cmd.stdio["stdout"].kind = "file"
    /\ fdtab[cmd.stdio["stdout"].fd] = PipeEnd(Orig, "stdout", "w")
    /\ fdtab[stdout(ios[Orig])] = PipeEnd(Orig, "stdout", "r")
    /\ cmd.stdio["stdin"] = StdioNull /\ cmd.stdio["stderr"] = StdioNull

\* The parent holds an open write end of the pipe of stream s
ParentWrites(s) == \E n \in Fds : fdtab[n] = PipeEnd(Orig, s, "w")
\* A read on the accessor of s reads the pipe of s
ParentReads(s) ==
    /\ Accessor(ios[Orig], s) \in Fds
    /\ fdtab[Accessor(ios[Orig], s)] = PipeEnd(Orig, s, "r")
\* The RuncPipedIO was neither cloned nor closed
Sole == ios[Orig].state = "live" /\ ~ios[Orig].closed /\ ios[Copy].state = "absent"
Wired(s) == cmd.stdio[s].kind = "file"

\* C33: after set / set_tk, the start of the child and close_after_start, the
\* parent holds no open write end of the stdout or stderr pipe while the
\* descriptor of stdout() / stderr() is the open read end, so that a read
\* reports end-of-file once the child has closed its end (the read end for a
\* RuncPipedIO that was neither cloned nor closed); and as long as the write
\* end of a wired stdout / stderr pipe is open, the descriptor of the accessor
\* is the open read end of the same pipe.
C33_EofAfterStart ==
    /\ \A i \in IOs : \A s \in Present(ios[i].pipes) \ {"stdin"} :
           (lastOp.op = "close_after_start" /\ lastOp.io = i) => ~ParentWrites(s)
    /\ Sole => \A s \in Present(ios[Orig].pipes) \ {"stdin"} :
           /\ (lastOp.op = "close_after_start" /\ Wired(s) /\ cmd.state = "spawned")
                 => ParentReads(s)
           /\ (Wired(s) /\ ParentWrites(s)) => ParentReads(s)

\* close_after_start after set and the start of the child, stdout and stderr
\* both piped: the read ends are the only ends the parent still holds
C33_Witness ==
    /\ Sole /\ lastOp.op = "close_after_start" /\ cmd.state = "spawned"
    /\ Present(ios[Orig].pipes) = {"stdout", "stderr"}
    /\ \A s \in {"stdout", "stderr"} : Wired(s) /\ ~ParentWrites(s) /\ ParentReads(s)

\* C8: once the RuncPipedIO that opened the pipes has been closed or dropped, no
\* pipe descriptor is open in the parent, whatever was requested and whatever
\* set, close_after_start or the clone did before.
C8_NoLeak ==
    (ios[Orig].state = "dropped" \/ (ios[Orig].state = "live" /\ ios[Orig].closed)) =>
        \A n \in Fds : fdtab[n].kind # "pipe"

\* drop of a RuncPipedIO with three intact pipes, wired into a command before
C8_Witness ==
    /\ lastOp.op = "drop" /\ lastOp.io = Orig /\ ~lastOp.stale
    /\ ios[Orig].opts = [s \in Streams |-> TRUE]
    /\ ~NotWired
    /\ \A n \in Fds : fdtab[n].kind # "pipe"

-----------------------------------------------------------------------------
(* Invoker: RuncClient::command_raw and RuncAsyncClient::command *)

\* The bytes the external binary can write: two ASCII letters and one byte that
\* is not valid UTF-8.
Bytes == {"a", "b", "xFF"}
RECURSIVE TextsOfLen(_)
TextsOfLen(n) ==
    IF n = 0 THEN {<< >>}
    ELSE {Append(t, c) : t \in TextsOfLen(n - 1), c \in Bytes}
Texts == UNION {TextsOfLen(n) : n \in 0..MaxLen}

\* String::from_utf8(bytes) is Ok exactly when every byte sequence is valid.
IsUtf8(t) == \A k \in 1..Len(t) : t[k] # "xFF"

Statuses == 0..MaxStatus

\* Stdio of the child of spawn_raw: stdin(Stdio::null()), stdout and stderr not
\* set, which for Command::spawn means inherited from the parent.
spawn_raw_stdio == [stdin |-> "null", stdout |-> "inherit", stderr |-> "inherit"]
\* Stdio of the child of RuncAsyncClient::command.
async_stdio == [stdin |-> "null", stdout |-> "piped", stderr |-> "piped"]

\* Child::wait_with_output collects a stream only if it was piped to the parent.
Captured(how, text) == IF how = "piped" THEN text ELSE << >>
wait_with_output(ch) ==
    [status |-> ch.status,
     stdout |-> Captured(ch.stdio.stdout, ch.out),
     stderr |-> Captured(ch.stdio.stderr, ch.err)]

Result(kind, status, output, out, err) ==
    [kind |-> kind, status |-> status, output |-> output, stdout |-> out, stderr |-> err]
NoResult == Result("none", 0, << >>, << >>, << >>)

\* The tail of command_raw and of the async command, from the Output on:
\* from_utf8(..).unwrap() of both streams, then the branch on status.success().
Respond(o, combined_output) ==
    IF ~IsUtf8(o.stdout) \/ ~IsUtf8(o.stderr)
    THEN Result("panic", 0, << >>, << >>, << >>)
    ELSE IF o.status = 0
    THEN Result("Ok", o.status,
                IF combined_output THEN o.stdout \o o.stderr ELSE o.stdout,
                << >>, << >>)
    ELSE Result("CommandFaliedError", o.status, << >>, o.stdout, o.stderr)

\* RuncClient::command_raw once wait_with_output has returned Ok
command_raw(ch, combined_output) == Respond(wait_with_output(ch), combined_output)
\* RuncAsyncClient::command once the timeout future has returned Ok(Ok(output))
async_command(ch, combined_output) == Respond(wait_with_output(ch), combined_output)

NoChild == [state |-> "none", stdio |-> spawn_raw_stdio, status |-> 0, out |-> << >>, err |-> << >>]

\* How the wait of a call ended: with the Output of the exited child, with an
\* io::Error, or (async only) with the Elapsed of time::timeout.
Awaited == {"output", "io_error", "elapsed"}
\* How a call that never came to wait ended: spawn failed, or the temporary
\* file could not be written.
NotAwaited == {"no_spawn", "no_file"}

\* RuncClient::command_raw from wait_with_output on:
\* .map_err(Error::CommandError)? and then the tail.
command_raw_wait(w, ch, combined_output) ==
    IF w = "io_error" THEN Result("CommandError", 0, << >>, << >>, << >>)
    ELSE command_raw(ch, combined_output)

\* The CommandError of the async client, when the wait itself failed
async_io_error == Result("CommandError", 0, << >>, << >>, << >>)
\* .map_err(Error::CommandError) in the place of .map_err(Error::CommandTimeoutError)
async_elapsed_as_command_error == Result("CommandError", 0, << >>, << >>, << >>)
\* The CommandTimeoutError of the async client
async_elapsed == Result("CommandTimeoutError", 0, << >>, << >>, << >>)

\* RuncAsyncClient::command from the timeout future on:
\* .map_err(Error::CommandTimeoutError)?.map_err(Error::CommandError)? and the tail.
async_command_wait(w, ch, combined_output) ==
    IF w = "elapsed" THEN async_elapsed
    ELSE IF w = "io_error" THEN async_io_error
    ELSE async_command(ch, combined_output)

\* The callers of command modelled here: a direct call, and exec and update,
\* which first write a temporary file and pass its path to the binary.
Methods == {"command", "exec", "update"}
TmpMethods == {"exec", "update"}

\* exec and update hold the NamedTempFile in a local: it is removed when the
\* method returns, whichever way it returns.
TempFileAtCall(method) == IF method \in TmpMethods THEN "exists" ELSE "none"
TempFileAtReturn(f) == IF f = "exists" THEN "deleted" ELSE f

NoCall == [mode |-> "-", method |-> "command", combined |-> FALSE, pc |-> "idle",
           ended |-> "-", tmpfile |-> "none"]
\* exec and update call command(&args, true)
CallOf(mode, method, combined_output, pc) ==
    [NoCall EXCEPT !.mode = mode, !.method = method, !.combined = combined_output,
                   !.pc = pc, !.tmpfile = TempFileAtCall(method)]
CanCall(method, combined_output) == method \in TmpMethods => combined_output
\* the call returns, its wait having ended with w
Return(c, w) ==
    [c EXCEPT !.pc = "returned", !.ended = w, !.tmpfile = TempFileAtReturn(c.tmpfile)]

Modes == {"blocking", "async"}

\* command(args, combined_output) is called, directly or by exec / update once
\* the temporary file is written, and the binary is spawned
Spawn(mode, method, combined_output) ==
    /\ call.pc = "idle"
    /\ CanCall(method, combined_output)
    /\ call' = CallOf(mode, method, combined_output, "waiting")
    /\ child' = [NoChild EXCEPT !.state = "running",
                                !.stdio = IF mode = "blocking" THEN spawn_raw_stdio
                                                               ELSE async_stdio]
    /\ UNCHANGED <<result, ioVars, argVars, query, regVars, store>>

\* .spawn().map_err(Error::ProcessSpawnError)?
SpawnFails(mode, method, combined_output) ==
    /\ call.pc = "idle"
    /\ CanCall(method, combined_output)
    /\ call' = Return(CallOf(mode, method, combined_output, "idle"), "no_spawn")
    /\ result' = Result("ProcessSpawnError", 0, << >>, << >>, << >>)
    /\ UNCHANGED <<child, ioVars, argVars, query, regVars, store>>

\* exec / update: f.write(..).map_err(Error::SpecFileCreationError)? fails, the
\* method returns before command is called
SpecFileFails(mode, method) ==
    /\ call.pc = "idle"
    /\ method \in TmpMethods
    /\ call' = Return(CallOf(mode, method, TRUE, "idle"), "no_file")
    /\ result' = Result("SpecFileCreationError", 0, << >>, << >>, << >>)
    /\ UNCHANGED <<child, ioVars, argVars, query, regVars, store>>

\* The external binary writes out to its stdout, err to its stderr, and exits.
ChildExit(status, out, err) ==
    /\ child.state = "running"
    /\ child' = [child EXCEPT !.state = "exited", !.status = status, !.out = out, !.err = err]
    /\ UNCHANGED <<call, result, ioVars, argVars, query, regVars, store>>

\* what the call returns when its wait ends with w
Ends(w) ==
    /\ result' = IF call.mode = "blocking" THEN command_raw_wait(w, child, call.combined)
                                           ELSE async_command_wait(w, child, call.combined)
    /\ call' = Return(call, w)
    /\ UNCHANGED <<child, ioVars, argVars, query, regVars, store>>

\* wait_with_output returns the Output of the exited child
WaitReturns ==
    /\ call.pc = "waiting"
    /\ child.state = "exited"
    /\ Ends("output")

\* wait_with_output returns an io::Error
WaitFails ==
    /\ call.pc = "waiting"
    /\ Ends("io_error")

\* time::timeout(self.0.timeout, ..) elapses before the child has exited;
\* nothing is done to the child.
Timeout ==
    /\ call.pc = "waiting"
    /\ call.mode = "async"
    /\ child.state = "running"
    /\ Ends("elapsed")

NextCmd ==
    \/ \E mode \in Modes, m \in Methods, c \in BOOLEAN : Spawn(mode, m, c)
    \/ \E mode \in Modes, m \in Methods, c \in BOOLEAN : SpawnFails(mode, m, c)
    \/ \E mode \in Modes, m \in Methods : SpecFileFails(mode, m)
    \/ \E st \in Statuses, out \in Texts, err \in Texts : ChildExit(st, out, err)
    \/ WaitReturns
    \/ WaitFails
    \/ Timeout

\* The call returned what it computed from the Output of a child that wrote
\* valid UTF-8 only.
Completed ==
    /\ call.pc = "returned"
    /\ child.state = "exited"
    /\ result.kind \notin {"CommandError", "CommandTimeoutError"}
    /\ IsUtf8(child.out) /\ IsUtf8(child.err)

\* C9: every call (blocking or async) whose binary exited with status 0 returns
\* a success whose output is what the binary wrote to stdout, followed by what
\* it wrote to stderr when combined_output is set.
C9_SuccessOutput ==
    (Completed /\ child.status = 0) =>
        /\ result.kind = "Ok"
        /\ result.output = (IF call.combined THEN child.out \o child.err ELSE child.out)

\* C10: every call (blocking or async) whose binary exited with a non-zero
\* status returns CommandFaliedError with that status and with what the binary
\* wrote to stdout and to stderr as two separate strings, whatever
\* combined_output is.
C10_FailureStreams ==
    (Completed /\ child.status # 0) =>
        /\ result.kind = "CommandFaliedError"
        /\ result.status = child.status
        /\ result.stdout = child.out
        /\ result.stderr = child.err

\* What each client returns for the outcome ch of the binary
BlockingOn(ch, combined_output) ==
    command_raw([ch EXCEPT !.stdio = spawn_raw_stdio], combined_output)
AsyncOn(ch, combined_output) ==
    async_command([ch EXCEPT !.stdio = async_stdio], combined_output)

\* C11: for the same outcome of the binary (exit status and the text written
\* to stdout and stderr) the blocking and the async client return the same
\* result: what a completed call of one client returned is what the other
\* client returns for that outcome.
C11_ClientsAgree ==
    Completed =>
        result = (IF call.mode = "blocking" THEN AsyncOn(child, call.combined)
                                            ELSE BlockingOn(child, call.combined))

PipedStdio == [stdin |-> "null", stdout |-> "piped", stderr |-> "piped"]

\* C12: the child of every blocking call has a null stdin and has stdout and
\* stderr piped to the parent, and the text the parent gets for each stream is
\* what the child wrote to it.
C12_BlockingCaptures ==
    (call.mode = "blocking" /\ child.state # "none") =>
        /\ child.stdio = PipedStdio
        /\ Completed => /\ wait_with_output(child).stdout = child.out
                        /\ wait_with_output(child).stderr = child.err

\* C13: an async call returns CommandTimeoutError exactly when the timeout
\* elapsed before the binary exited; CommandFaliedError is returned only for a
\* binary that exited with a non-zero status, and the blocking client never
\* returns CommandTimeoutError.
C13_TimeoutError ==
    call.pc = "returned" =>
        /\ (call.ended = "elapsed") <=> (result.kind = "CommandTimeoutError")
        /\ result.kind = "CommandTimeoutError" => call.mode = "async"
        /\ result.kind = "CommandFaliedError" =>
               /\ call.ended = "output"
               /\ child.state = "exited" /\ child.status # 0
C13_Witness ==
    /\ call.pc = "returned" /\ call.mode = "async" /\ call.ended = "elapsed"
    /\ result.kind = "CommandTimeoutError"

\* C14: once an async call has returned CommandTimeoutError its child is no
\* longer running.
C14_NoChildAfterTimeout ==
    (call.pc = "returned" /\ result.kind = "CommandTimeoutError") =>
        child.state # "running"

\* The classification of C15 on the returned call
ErrorMapping ==
    /\ call.ended = "no_spawn" => result.kind = "ProcessSpawnError"
    /\ call.ended = "io_error" => result.kind = "CommandError"
    /\ (call.ended = "output" /\ child.status # 0) =>
           /\ result.kind = "CommandFaliedError"
           /\ result.status = child.status
           /\ result.stdout = wait_with_output(child).stdout
           /\ result.stderr = wait_with_output(child).stderr
    /\ (call.ended = "output" /\ child.status = 0) => result.kind = "Ok"
    /\ result.kind = "Ok" => (call.ended = "output" /\ child.status = 0)

\* C15: every call that returned has the result of its outcome: a failed spawn
\* gives ProcessSpawnError, a failed wait CommandError, a non-zero exit
\* CommandFaliedError with the status and both captured streams, and only a
\* zero exit gives success.
C15_ErrorMapping == call.pc = "returned" => ErrorMapping

\* The results command has for its caller: the success and the typed errors
TypedResults ==
    {"Ok", "ProcessSpawnError", "CommandError", "CommandFaliedError", "CommandTimeoutError"}

\* C32: every async call that waits for its child eventually returns a
\* success, ProcessSpawnError, CommandError, CommandFaliedError or
\* CommandTimeoutError, also when the child never exits.
C32_AsyncCompletes ==
    (call.mode = "async" /\ call.pc = "waiting")
        ~> (call.pc = "returned" /\ result.kind \in TypedResults)

\* C39: no call, blocking or async, ends in a panic: whatever the binary wrote
\* and however it exited, the caller gets a success or a typed error.
C39_NeverPanics ==
    call.pc = "returned" => result.kind \in TypedResults \cup {"SpecFileCreationError"}

\* C18: in a call of exec or update whose wait did not fail, the temporary
\* file exists for as long as the spawned child is running.
C18_TempFileOutlivesChild ==
    (call.method \in TmpMethods /\ child.state = "running" /\ call.ended # "io_error") =>
        call.tmpfile = "exists"

(***************************************************************************)
(* Verb methods: the argument vector each one hands to the binary           *)
(***************************************************************************)

Clients == {"RuncClient", "RuncAsyncClient"}
Verbs == {"create", "delete", "exec", "kill", "list", "pause", "ps", "resume",
          "run", "start", "state", "stats", "update"}
\* The subcommands of the binary
VerbTokens == {"create", "delete", "exec", "kill", "list", "pause", "ps", "resume",
               "run", "start", "state", "events", "update"}
\* The verbs whose methods take an Option<&..Opts>
OptVerbs == {"create", "delete", "exec", "kill", "run"}

ContainerIds == {"c1", "c2"}
Bundles == {"/b", "b"}
Signals == {9, 15}
\* What opts.args() contributes: nothing (None, or no option set), a flag, or a
\* flag with its value.
OptArgs == {<< >>, <<"--flag">>, <<"--opt", "val">>}
\* The paths make_temp_file_in_runtime_dir can return: a fresh name, any name
\* no existing file has.
TmpNames == {"/run/tmp.1", "/run/tmp.2"}

\* The configurations of the model: the default one, one with the first two
\* flags, one with all six.
NoFlags == [root |-> FALSE, debug |-> FALSE, log |-> FALSE, log_format |-> "-",
            systemd_cgroup |-> FALSE, rootless |-> FALSE]
Configs ==
    {NoFlags,
     [NoFlags EXCEPT !.root = TRUE, !.debug = TRUE],
     [root |-> TRUE, debug |-> TRUE, log |-> TRUE, log_format |-> "json",
      systemd_cgroup |-> TRUE, rootless |-> TRUE]}

When(b, seq) == IF b THEN seq ELSE << >>

\* Runc::args(): the global flags, in the order root, debug, log path, log
\* format, systemd-cgroup, rootless.
GlobalArgs(cfg) ==
    When(cfg.root, <<"--root", "ROOT">>)
    \o When(cfg.debug, <<"--debug">>)
    \o When(cfg.log, <<"--log", "LOG">>)
    \o When(cfg.log_format # "-", <<"--log-format", cfg.log_format>>)
    \o When(cfg.systemd_cgroup, <<"--systemd-cgroup">>)
    \o When(cfg.rootless, <<"--rootless", "true">>)

\* utils::abs_string: the path made absolute
abs_string(path) == IF path = "b" THEN "/cwd/b" ELSE path

\* u32::to_string of the signal
to_string(sig) == IF sig = 9 THEN "9" ELSE "15"

\* The args each method passes to command; f is the path of the temporary file.
RuncClient_create(r) == <<"create", "--bundle", abs_string(r.bundle)>> \o r.optargs \o <<r.id>>
\* delete with the id pushed before the options
RuncClient_delete_id_first(r) == <<"delete", r.id>> \o r.optargs
RuncClient_delete(r) == <<"delete">> \o r.optargs \o <<r.id>>
\* exec with the path of the temporary file pushed last
RuncClient_exec_file_last(r, f) == <<"exec", "process">> \o r.optargs \o <<r.id, f>>
RuncClient_exec(r, f) == <<"exec", "process", f>> \o r.optargs \o <<r.id>>
RuncClient_kill(r) == <<"kill">> \o r.optargs \o <<r.id, to_string(r.sig)>>
RuncClient_list == <<"list", "--format-json">>
RuncClient_pause(r) == <<"pause", r.id>>
RuncClient_ps(r) == <<"ps", "--format-json", r.id>>
RuncClient_resume(r) == <<"pause", r.id>>
RuncClient_run(r) == <<"run", "--bundle">> \o r.optargs \o <<abs_string(r.bundle), r.id>>
RuncClient_start(r) == <<"start", r.id>>
RuncClient_state(r) == <<"state", r.id>>
RuncClient_stats(r) == <<"events", "--stats", r.id>>
RuncClient_update(r, f) == <<"update", "--resources", f, r.id>>

VerbArgs(r, f) ==
    CASE r.verb = "create" -> RuncClient_create(r)
      [] r.verb = "delete" -> RuncClient_delete(r)
      [] r.verb = "exec" -> RuncClient_exec(r, f)
      [] r.verb = "kill" -> RuncClient_kill(r)
      [] r.verb = "list" -> RuncClient_list
      [] r.verb = "pause" -> RuncClient_pause(r)
      [] r.verb = "ps" -> RuncClient_ps(r)
      [] r.verb = "resume" -> RuncClient_resume(r)
      [] r.verb = "run" -> RuncClient_run(r)
      [] r.verb = "start" -> RuncClient_start(r)
      [] r.verb = "state" -> RuncClient_state(r)
      [] r.verb = "stats" -> RuncClient_stats(r)
      [] r.verb = "update" -> RuncClient_update(r, f)

\* command: [&self.0.args()?, args].concat()
command_args(cfg, args) == GlobalArgs(cfg) \o args

\* exec and update get a fresh temporary file, the other verbs none
TmpChoices(verb) == IF verb \in TmpMethods THEN TmpNames ELSE {"-"}

NoRequest ==
    [client |-> "-", verb |-> "-", cfg |-> NoFlags, id |-> "-", bundle |-> "-",
     sig |-> 0, optargs |-> << >>]
NoArgv == [req |-> NoRequest, file |-> "-", handed |-> FALSE, args |-> << >>]
\* the method handed its vector to the binary
Handed(r, f) ==
    [req |-> r, file |-> f, handed |-> TRUE, args |-> command_args(r.cfg, VerbArgs(r, f))]
\* the method returned an error before the binary was invoked
NotHanded(r) == [req |-> r, file |-> "-", handed |-> FALSE, args |-> << >>]

\* RuncConfig::build / build_async: the client and its configuration, which
\* no method changes.
Build(client, cfg) ==
    /\ argv = NoArgv
    /\ argv' = [NoArgv EXCEPT !.req.client = client, !.req.cfg = cfg]
    /\ prev' = NoArgv
    /\ UNCHANGED <<ioVars, cmdVars, query, regVars, store>>

\* A call of a verb method of the client built: the verb and the arguments
\* of the method.
Request(verb, id, bundle, sig, optargs) ==
    [argv.req EXCEPT !.verb = verb, !.id = id, !.bundle = bundle, !.sig = sig,
                     !.optargs = optargs]

\* A verb method is called and comes to invoke the binary.
VerbCall(r) ==
    /\ r.client # "-"
    /\ \E f \in TmpChoices(r.verb) : argv' = Handed(r, f)
    /\ prev' = NoArgv
    /\ UNCHANGED <<ioVars, cmdVars, query, regVars, store>>

\* self.0.args()?, opts.args()?, utils::abs_string(..)? or the writing of the
\* temporary file fails: the method returns before the binary is invoked.
VerbFails(r) ==
    /\ r.client # "-"
    /\ argv' = NotHanded(r)
    /\ prev' = NoArgv
    /\ UNCHANGED <<ioVars, cmdVars, query, regVars, store>>

\* The method just called is called again with the same configuration,
\* options and container id.
VerbRepeat ==
    /\ argv.handed
    /\ \E f \in TmpChoices(argv.req.verb) : argv' = Handed(argv.req, f)
    /\ prev' = argv
    /\ UNCHANGED <<ioVars, cmdVars, query, regVars, store>>

NextArgs ==
    \/ \E client \in Clients, cfg \in Configs : Build(client, cfg)
    \/ \E verb \in Verbs, id \in ContainerIds, bundle \in Bundles, sig \in Signals,
          optargs \in OptArgs : VerbCall(Request(verb, id, bundle, sig, optargs))
    \/ \E verb \in Verbs : VerbFails(Request(verb, "-", "-", 0, << >>))
    \/ VerbRepeat

\* Positions in the vector of the last call
GlobalLen == Len(GlobalArgs(argv.req.cfg))
TokenPos == GlobalLen + 1
GlobalFirst == SubSeq(argv.args, 1, GlobalLen) = GlobalArgs(argv.req.cfg)
TokenNext == Len(argv.args) > GlobalLen /\ argv.args[TokenPos] \in VerbTokens
\* the flags of opts.args() lie, in one piece, after the token and before position p
FlagsBefore(p) ==
    argv.req.verb \in OptVerbs =>
        \E k \in (TokenPos + 1)..p :
            /\ k + Len(argv.req.optargs) <= p
            /\ SubSeq(argv.args, k, k + Len(argv.req.optargs) - 1) = argv.req.optargs
IdAt(p) == p > TokenPos /\ argv.args[p] = argv.req.id

\* C16 as stated: for every verb method with a container id the vector is the
\* global flags, the verb token, the verb flags, and the container id as the
\* last element.
C16_IdLast ==
    (argv.handed /\ argv.req.verb # "list") =>
        /\ GlobalFirst /\ TokenNext
        /\ FlagsBefore(Len(argv.args))
        /\ IdAt(Len(argv.args))

\* C16: for every verb method with a container id the vector is the global
\* flags, the verb token, the verb flags, then the container id, which is the
\* last element except in kill, where the signal number follows it.
C16_ArgOrder ==
    (argv.handed /\ argv.req.verb # "list") =>
        /\ GlobalFirst /\ TokenNext
        /\ IF argv.req.verb = "kill"
           THEN /\ FlagsBefore(Len(argv.args) - 1)
                /\ IdAt(Len(argv.args) - 1)
                /\ argv.args[Len(argv.args)] = to_string(argv.req.sig)
           ELSE /\ FlagsBefore(Len(argv.args))
                /\ IdAt(Len(argv.args))
C16_Witness ==
    /\ argv.handed /\ argv.req.verb = "kill"
    /\ argv.req.cfg.rootless /\ argv.req.optargs = <<"--opt", "val">>
    /\ argv.args[Len(argv.args) - 1] = argv.req.id

FilePos == TokenPos + 2
SameBut(a, b, p) ==
    /\ Len(a) = Len(b)
    /\ \A k \in 1..Len(a) : k # p => a[k] = b[k]

C36_BundleValue ==
    (argv.handed /\ argv.req.verb \in {"create", "run"}) =>
        \A k \in 1..Len(argv.args) :
            argv.args[k] = "--bundle" =>
                /\ k < Len(argv.args)
                /\ argv.args[k + 1] = abs_string(argv.req.bundle)

\* C37: pause and resume hand the binary the verb token of their own
\* operation, followed by the container id.
C37_OwnToken ==
    (argv.handed /\ argv.req.verb \in {"pause", "resume"}) =>
        /\ argv.args[TokenPos] = argv.req.verb
        /\ argv.args[TokenPos + 1] = argv.req.id

(***************************************************************************)
(* list and ps: from the call to the collection returned                    *)
(***************************************************************************)

\* What the binary can write to the stdout of a query, as lexemes: a
\* whitespace character, the literal null, an empty JSON array, a JSON array
\* of one element, a character that starts no JSON value, an event object
\* with statistics and an event object without.
Lexemes == {" ", "null", "[]", "[1]", "x", "{s}", "{}"}
RECURSIVE LexemesOfLen(_)
LexemesOfLen(n) ==
    IF n = 0 THEN {<< >>}
    ELSE {Append(t, c) : t \in LexemesOfLen(n - 1), c \in Lexemes}
Outputs == UNION {LexemesOfLen(n) : n \in 0..MaxOut}
\* What it can write to its stderr
Warnings == {<< >>, <<"x">>}

\* str::trim: the text without its leading and trailing whitespace
RECURSIVE trim_start(_)
trim_start(t) ==
    IF t = << >> THEN t
    ELSE IF Head(t) = " " THEN trim_start(Tail(t)) ELSE t
RECURSIVE trim_end(_)
trim_end(t) ==
    IF t = << >> THEN t
    ELSE IF t[Len(t)] = " " THEN trim_end(SubSeq(t, 1, Len(t) - 1)) ELSE t
trim(t) == trim_end(trim_start(t))

Collection(kind, value) == [kind |-> kind, value |-> value]
NoCollection == Collection("none", << >>)

\* serde_json::from_str::<Vec<_>>(..).map_err(Error::JsonDeserializationError):
\* one JSON array with nothing but whitespace around it, anything else
\* (the empty text and null included) is an error.
from_str(t) ==
    IF trim(t) = <<"[]">> THEN Collection("Ok", << >>)
    ELSE IF trim(t) = <<"[1]">> THEN Collection("Ok", <<1>>)
    ELSE Collection("JsonDeserializationError", << >>)

\* self.command(&args, false) of either client, its wait ending with w
command(mode, w, ch, combined_output) ==
    IF mode = "blocking"
    THEN command_raw_wait(w, [ch EXCEPT !.stdio = spawn_raw_stdio], combined_output)
    ELSE async_command_wait(w, [ch EXCEPT !.stdio = async_stdio], combined_output)

\* RuncClient::list and RuncAsyncClient::list: the error of command, or the
\* null hack on the trimmed output, or the parsed array
list(mode, w, ch) ==
    LET r == command(mode, w, ch, FALSE) IN
    IF r.kind # "Ok" THEN Collection(r.kind, << >>)
    ELSE LET output == trim(r.output) IN
         IF output = <<"null">> THEN Collection("Ok", << >>)
         ELSE from_str(output)

\* RuncClient::ps and RuncAsyncClient::ps: the same steps
ps(mode, w, ch) ==
    LET r == command(mode, w, ch, FALSE) IN
    IF r.kind # "Ok" THEN Collection(r.kind, << >>)
    ELSE LET output == trim(r.output) IN
         IF output = <<"null">> THEN Collection("Ok", << >>)
         ELSE from_str(output)

\* RuncClient::state and RuncAsyncClient::state: the error of command, or the
\* combined output parsed as Vec<usize>
state(mode, w, ch) ==
    LET r == command(mode, w, ch, TRUE) IN
    IF r.kind # "Ok" THEN Collection(r.kind, << >>)
    ELSE from_str(r.output)

\* serde_json::from_str::<Event>(..): one event object with nothing but
\* whitespace around it; its field stats is an Option
Event_from_str(t) ==
    IF trim(t) = <<"{s}">> THEN [kind |-> "Ok", stats |-> "Some"]
    ELSE IF trim(t) = <<"{}">> THEN [kind |-> "Ok", stats |-> "None"]
    ELSE [kind |-> "JsonDeserializationError", stats |-> "None"]

\* The Stats of an event that carries them
SomeStats == <<0>>

\* RuncClient::stats and RuncAsyncClient::stats: the error of command, or the
\* combined output parsed as an Event, and the statistics of the event
stats(mode, w, ch) ==
    LET r == command(mode, w, ch, TRUE)
        event == Event_from_str(r.output)
    IN IF r.kind # "Ok" THEN Collection(r.kind, << >>)
       ELSE IF event.kind # "Ok" THEN Collection("JsonDeserializationError", << >>)
       ELSE IF event.stats = "Some" THEN Collection("Ok", SomeStats)
       ELSE Collection("MissingContainerStatsError", << >>)

NoQuery == [verb |-> "-", mode |-> "-", ended |-> "-", child |-> NoChild, ret |-> NoCollection]

\* The binary of a query exited with status st having written out and err
Exited(st, out, err) ==
    [NoChild EXCEPT !.state = "exited", !.status = st, !.out = out, !.err = err]
\* The binary of a query whose wait failed or timed out
Running == [NoChild EXCEPT !.state = "running"]
CanEnd(mode, w) == w = "elapsed" => mode = "async"

\* list, ps, state or stats is called and the binary is spawned
QueryCall(verb, mode) ==
    /\ query' = [NoQuery EXCEPT !.verb = verb, !.mode = mode, !.child = Running]
    /\ UNCHANGED <<ioVars, cmdVars, argVars, regVars, store>>

\* the wait of the list in progress ends with w, the binary having done what
\* ch says, and list returns
List(w, ch) ==
    /\ query.verb = "list" /\ query.ended = "-"
    /\ CanEnd(query.mode, w)
    /\ query' = [query EXCEPT !.ended = w, !.child = ch, !.ret = list(query.mode, w, ch)]
    /\ UNCHANGED <<ioVars, cmdVars, argVars, regVars, store>>

\* the wait of the ps in progress ends with w, the binary having done what ch
\* says, and ps returns
Ps(w, ch) ==
    /\ query.verb = "ps" /\ query.ended = "-"
    /\ CanEnd(query.mode, w)
    /\ query' = [query EXCEPT !.ended = w, !.child = ch, !.ret = ps(query.mode, w, ch)]
    /\ UNCHANGED <<ioVars, cmdVars, argVars, regVars, store>>

\* the wait of the state in progress ends with w and state returns
State(w, ch) ==
    /\ query.verb = "state" /\ query.ended = "-"
    /\ CanEnd(query.mode, w)
    /\ query' = [query EXCEPT !.ended = w, !.child = ch, !.ret = state(query.mode, w, ch)]
    /\ UNCHANGED <<ioVars, cmdVars, argVars, regVars, store>>

\* the wait of the stats in progress ends with w and stats returns
Stats(w, ch) ==
    /\ query.verb = "stats" /\ query.ended = "-"
    /\ CanEnd(query.mode, w)
    /\ query' = [query EXCEPT !.ended = w, !.child = ch, !.ret = stats(query.mode, w, ch)]
    /\ UNCHANGED <<ioVars, cmdVars, argVars, regVars, store>>

Queries == {"list", "ps", "state", "stats"}

NextQuery ==
    \/ \E verb \in Queries, mode \in Modes : QueryCall(verb, mode)
    \/ \E st \in Statuses, out \in Outputs, err \in Warnings :
          List("output", Exited(st, out, err))
    \/ \E w \in Awaited \ {"output"} : List(w, Running)
    \/ \E st \in Statuses, out \in Outputs, err \in Warnings :
          Ps("output", Exited(st, out, err))
    \/ \E w \in Awaited \ {"output"} : Ps(w, Running)
    \/ \E st \in Statuses, out \in Outputs, err \in Warnings :
          State("output", Exited(st, out, err))
    \/ \E w \in Awaited \ {"output"} : State(w, Running)
    \/ \E st \in Statuses, out \in Outputs, err \in Warnings :
          Stats("output", Exited(st, out, err))
    \/ \E w \in Awaited \ {"output"} : Stats(w, Running)

\* The binary of the last list or ps exited 0 and wrote null, surrounded by
\* whitespace or not, to its stdout.
WroteNull ==
    /\ query.verb \in {"list", "ps"}
    /\ query.ended = "output"
    /\ query.child.status = 0
    /\ trim(query.child.out) = <<"null">>

\* C19: when the binary exits 0 and its stdout without the surrounding
\* whitespace is null, list and ps of either client return an empty collection.
C19_NullIsEmpty == WroteNull => query.ret = Collection("Ok", << >>)

\* What the query verb returns for the outcome ch of its binary
QueryOn(verb, mode, ch) ==
    CASE verb = "list" -> list(mode, "output", ch)
      [] verb = "ps" -> ps(mode, "output", ch)
      [] verb = "state" -> state(mode, "output", ch)
      [] verb = "stats" -> stats(mode, "output", ch)

\* C34: for list, ps and stats the parsed data is the stdout of the binary
\* alone: on a zero exit the call returns what it returns for the same stdout
\* and an empty stderr.
C34_StdoutAlone ==
    (/\ query.verb \in {"list", "ps", "stats"}
     /\ query.ended = "output"
     /\ query.child.status = 0)
        => query.ret = QueryOn(query.verb, query.mode, [query.child EXCEPT !.err = << >>])

\* What the binary wrote to its stdout parses as the type the verb expects
Parses(verb, out) ==
    IF verb = "stats" THEN Event_from_str(out).kind = "Ok"
    ELSE IF verb = "state" THEN from_str(out).kind = "Ok"
    ELSE trim(out) = <<"null">> \/ from_str(out).kind = "Ok"

\* C35: the failure kinds of list, ps, state and stats are kept apart: a
\* non-zero exit gives CommandFaliedError; a zero exit with a stdout that does
\* not parse gives JsonDeserializationError; a zero exit of stats whose event
\* carries no statistics gives MissingContainerStatsError.
C35_FailureKinds ==
    query.ended = "output" =>
        /\ query.child.status # 0 => query.ret.kind = "CommandFaliedError"
        /\ (query.child.status = 0 /\ ~Parses(query.verb, query.child.out))
              => query.ret.kind = "JsonDeserializationError"
        /\ (/\ query.verb = "stats" /\ query.child.status = 0
            /\ Event_from_str(query.child.out) = [kind |-> "Ok", stats |-> "None"])
              => query.ret.kind = "MissingContainerStatsError"

(***************************************************************************)
(* Container: the primary process and the map of secondary processes        *)
(***************************************************************************)

\* The ids a Container can be created with
RegIds == {"c1", "c2"}
\* The ids a lookup, an insertion or a removal can name
Keys == {"", "c1", "c2", "e1"}
\* The processes: the init process of the container and two others
Primary == "init"
Secondaries == {"p1", "p2"}
NoProc == "-"
Procs == {Primary} \cup Secondaries

\* The lifecycle of an InitProcess: created, started, deleted; start is valid
\* in created, kill in every state but deleted, delete in every state.
Created == "created"
CanDo(op, life) ==
    CASE op = "start" -> life = "created"
      [] op = "kill" -> life # "deleted"
      [] op = "delete" -> TRUE
AfterOp(op, life) ==
    CASE op = "start" -> "started"
      [] op = "kill" -> life
      [] op = "delete" -> "deleted"

NoContainer ==
    [state |-> "none", id |-> "-", process_self |-> NoProc,
     processes |-> [k \in Keys |-> NoProc],
     mu |-> "free", life |-> [p \in Procs |-> Created]]
Ret(op, id, kind, proc) == [op |-> op, id |-> id, kind |-> kind, proc |-> proc]
NoRet == Ret("-", "-", "-", NoProc)

\* a lock that takes the guard out of a poisoned mutex
lock_into_inner(c) == "held"
\* self.mu.lock().unwrap(): the guard, or a panic when the mutex is poisoned
lock(c) == IF c.mu = "poisoned" THEN "panic" ELSE "held"
\* a guard that outlives the function that took it
unlock_never(c) == c
\* the guard _m dropped at the end of the function that took it
unlock(c) == [c EXCEPT !.mu = "free"]
\* what an operation that found the mutex poisoned comes to
Panicked(op, id) == Ret(op, id, "panic", NoProc)

\* processes.get(id).ok_or_else(|| io::ErrorKind::NotFound)
Get(c, id) ==
    IF c.processes[id] = NoProc THEN [kind |-> "NotFound", proc |-> NoProc]
    ELSE [kind |-> "Ok", proc |-> c.processes[id]]

\* a lookup of the map alone
process_map_only(c, id) == Get(c, id)
\* a lookup that asks the map first and falls back on the primary process
process_map_first(c, id) ==
    IF c.processes[id] # NoProc THEN Get(c, id)
    ELSE IF id = "" \/ id = c.id THEN [kind |-> "Ok", proc |-> c.process_self]
    ELSE Get(c, id)

\* Container::process
process(c, id) ==
    IF id = "" \/ id = c.id THEN [kind |-> "Ok", proc |-> c.process_self]
    ELSE Get(c, id)

\* Container::process_mut
process_mut(c, id) ==
    IF id = "" \/ id = c.id THEN [kind |-> "Ok", proc |-> c.process_self]
    ELSE Get(c, id)

\* a removal that leaves the entry in the map
process_remove_get(c, id) == c
\* Container::process_remove: the map without the entry of id; the process
\* that was stored there is handed to the caller
process_remove(c, id) ==
    [c EXCEPT !.processes[id] = NoProc,
              !.life = IF c.processes[id] = NoProc THEN @
                       ELSE [@ EXCEPT ![c.processes[id]] = Created]]

\* A start, kill or delete request; the pid call has no request.
Req(op, id, exec_id, signal, all) ==
    [op |-> op, id |-> id, exec_id |-> exec_id, signal |-> signal, all |-> all,
     pc |-> "idle", target |-> NoProc]
NoTask == Req("-", "-", "-", 0, FALSE)
Idle == task.pc = "idle"
\* The id each method resolves: req.id in start and kill, req.exec_id in delete
LookupId(t) == IF t.op = "delete" THEN t.exec_id ELSE t.id

\* Container::new returns Ok: the init process is the primary process and the
\* map is empty
ContainerNew(id) ==
    /\ container.state = "none"
    /\ container' = [NoContainer EXCEPT !.state = "live", !.id = id, !.process_self = Primary]
    /\ ret' = Ret("new", id, "Ok", Primary)
    /\ UNCHANGED <<task, ioVars, cmdVars, argVars, query, store>>

\* The insertion of the registry: a new process p is stored under key id, in
\* the place of what was stored there
ProcessAdd(id, p) ==
    /\ container.state = "live" /\ Idle
    /\ \A k \in Keys : container.processes[k] # p
    /\ IF lock(container) = "panic"
       THEN /\ ret' = Panicked("process_add", id)
            /\ UNCHANGED container
       ELSE /\ container' = [process_remove(container, id) EXCEPT !.processes[id] = p]
            /\ ret' = Ret("process_add", id, "Ok", p)
    /\ UNCHANGED <<task, ioVars, cmdVars, argVars, query, store>>

\* Container::process_remove: Some(process) and the entry removed, or None
ProcessRemove(id) ==
    /\ container.state = "live" /\ Idle
    /\ IF lock(container) = "panic"
       THEN /\ ret' = Panicked("process_remove", id)
            /\ UNCHANGED container
       ELSE /\ container' = process_remove(container, id)
            /\ ret' = Ret("process_remove", id,
                          IF container.processes[id] = NoProc THEN "None" ELSE "Some",
                          container.processes[id])
    /\ UNCHANGED <<task, ioVars, cmdVars, argVars, query, store>>

\* Container::process is called with id
Process(id) ==
    /\ container.state = "live" /\ Idle
    /\ ret' = IF lock(container) = "panic" THEN Panicked("process", id)
              ELSE Ret("process", id, process(container, id).kind,
                       process(container, id).proc)
    /\ UNCHANGED <<container, task, ioVars, cmdVars, argVars, query, store>>

\* Container::process_mut is called with id
ProcessMut(id) ==
    /\ container.state = "live" /\ Idle
    /\ ret' = IF lock(container) = "panic" THEN Panicked("process_mut", id)
              ELSE Ret("process_mut", id, process_mut(container, id).kind,
                       process_mut(container, id).proc)
    /\ UNCHANGED <<container, task, ioVars, cmdVars, argVars, query, store>>

\* A method that locks is entered with request t: the guard is taken, or the
\* method panics on the poisoned mutex.
Enter(t) ==
    /\ container.state = "live" /\ Idle
    /\ IF lock(container) = "panic"
       THEN /\ ret' = Panicked(t.op, LookupId(t))
            /\ UNCHANGED <<container, task>>
       ELSE /\ container' = [container EXCEPT !.mu = "held"]
            /\ task' = [t EXCEPT !.pc = "locked"]
            /\ UNCHANGED ret
    /\ UNCHANGED <<ioVars, cmdVars, argVars, query, store>>

\* Container::start is called: self.process_mut(&req.id) takes the lock
Start(exec_id) == Enter(Req("start", container.id, exec_id, 0, FALSE))

\* Container::kill is called: self.process_mut(&req.id) takes the lock
Kill(exec_id, signal, all) == Enter(Req("kill", container.id, exec_id, signal, all))

\* Container::delete is called: self.process_mut(&req.exec_id) takes the lock
Delete(exec_id) == Enter(Req("delete", container.id, exec_id, 0, FALSE))

\* Container::pid is called and takes the lock
Pid == Enter(Req("pid", container.id, "", 0, FALSE))

\* process_mut of the start, kill or delete in progress returns: the guard is
\* dropped; NotFound ends the method by ?, a process found is what the method
\* goes on with.
Resolve ==
    /\ task.pc = "locked" /\ task.op \in {"start", "kill", "delete"}
    /\ container' = unlock(container)
    /\ IF process_mut(container, LookupId(task)).kind = "NotFound"
       THEN /\ ret' = Ret(task.op, LookupId(task), "NotFound", NoProc)
            /\ task' = NoTask
       ELSE /\ task' = [task EXCEPT !.pc = "delegating",
                                    !.target = process_mut(container, LookupId(task)).proc]
            /\ UNCHANGED ret
    /\ UNCHANGED <<ioVars, cmdVars, argVars, query, store>>

\* p.start() returns, Ok only if the process could be started; start returns
\* Ok(p.pid()) or the error.
StartReturns(ok) ==
    /\ task.pc = "delegating" /\ task.op = "start"
    /\ ok => CanDo("start", container.life[task.target])
    /\ container' = IF ok THEN [container EXCEPT !.life[task.target] = AfterOp("start", @)]
                    ELSE container
    /\ ret' = Ret("start", LookupId(task), IF ok THEN "Ok" ELSE "ProcessError",
                  IF ok THEN task.target ELSE NoProc)
    /\ task' = NoTask
    /\ UNCHANGED <<ioVars, cmdVars, argVars, query, store>>

\* p.kill(req.signal, req.all) returns and kill returns what it returned.
KillReturns(ok) ==
    /\ task.pc = "delegating" /\ task.op = "kill"
    /\ ok => CanDo("kill", container.life[task.target])
    /\ ret' = Ret("kill", LookupId(task), IF ok THEN "Ok" ELSE "ProcessError", NoProc)
    /\ task' = NoTask
    /\ UNCHANGED <<container, ioVars, cmdVars, argVars, query, store>>

\* a delete that takes the entry out of the map whatever p.delete() returned
delete_error_removes(c, exec_id) == process_remove(c, exec_id)
\* p.delete()? with an Err: delete returns before it reaches process_remove
delete_error(c, exec_id) == c

\* p.delete() returns: an error ends delete by ?; after Ok, delete goes on to
\* process_remove when req.exec_id is not empty and returns the pid, exit
\* status and exit time of process_self when it is.
DeleteReturns(ok) ==
    /\ task.pc = "delegating" /\ task.op = "delete"
    /\ container' = IF ok THEN [container EXCEPT !.life[task.target] = AfterOp("delete", @)]
                    ELSE delete_error(container, task.exec_id)
    /\ IF ~ok
       THEN /\ ret' = Ret("delete", task.exec_id, "ProcessError", NoProc)
            /\ task' = NoTask
       ELSE IF task.exec_id # ""
       THEN /\ task' = [task EXCEPT !.pc = "removing"]
            /\ UNCHANGED ret
       ELSE /\ ret' = Ret("delete", task.exec_id, "Ok", container.process_self)
            /\ task' = NoTask
    /\ UNCHANGED <<ioVars, cmdVars, argVars, query, store>>

\* delete: self.process_remove(&req.exec_id).ok_or(NotFound)?, and the pid,
\* exit status and exit time of the process removed
DeleteRemoves ==
    /\ task.pc = "removing"
    /\ IF lock(container) = "panic"
       THEN /\ ret' = Panicked("delete", task.exec_id)
            /\ UNCHANGED container
       ELSE /\ container' = process_remove(container, task.exec_id)
            /\ ret' = IF container.processes[task.exec_id] = NoProc
                      THEN Ret("delete", task.exec_id, "NotFound", NoProc)
                      ELSE Ret("delete", task.exec_id, "Ok",
                               container.processes[task.exec_id])
    /\ task' = NoTask
    /\ UNCHANGED <<ioVars, cmdVars, argVars, query, store>>

\* pid: self.process_self.pid() returns and the guard is dropped
PidReturns ==
    /\ task.pc = "locked" /\ task.op = "pid"
    /\ container' = unlock(container)
    /\ ret' = Ret("pid", "", "Ok", container.process_self)
    /\ task' = NoTask
    /\ UNCHANGED <<ioVars, cmdVars, argVars, query, store>>

\* pid: the thread panics in self.process_self.pid(), with the guard alive:
\* the mutex is poisoned
PidPanics ==
    /\ task.pc = "locked" /\ task.op = "pid"
    /\ container' = [container EXCEPT !.mu = "poisoned"]
    /\ ret' = Panicked("pid", "")
    /\ task' = NoTask
    /\ UNCHANGED <<ioVars, cmdVars, argVars, query, store>>

\* The methods that only return an error
StubVerbs == {"exec", "pause", "resume", "resize_pty", "close_io", "checkpoint", "update",
              "has_pid"}
\* Err(Box::new(ttrpc::Error::Others("not implemented yet".to_string()))),
\* the body of each of them
stub(verb) == "Others(not implemented yet)"

\* One of the stubbed methods is called
Stub(verb) ==
    /\ container.state = "live" /\ Idle
    /\ ret' = Ret(verb, "-", stub(verb), NoProc)
    /\ UNCHANGED <<container, task, ioVars, cmdVars, argVars, query, store>>

NextReg ==
    \/ \E id \in RegIds : ContainerNew(id)
    \/ \E id \in Keys, p \in Secondaries : ProcessAdd(id, p)
    \/ \E id \in Keys : ProcessRemove(id)
    \/ \E id \in Keys : Process(id)
    \/ \E id \in Keys : ProcessMut(id)
    \/ \E exec_id \in Keys : Start(exec_id)
    \/ \E exec_id \in Keys, signal \in Signals, all \in BOOLEAN : Kill(exec_id, signal, all)
    \/ \E exec_id \in Keys : Delete(exec_id)
    \/ Pid
    \/ Resolve
    \/ \E ok \in BOOLEAN : StartReturns(ok)
    \/ \E ok \in BOOLEAN : KillReturns(ok)
    \/ \E ok \in BOOLEAN : DeleteReturns(ok)
    \/ DeleteRemoves
    \/ PidReturns
    \/ PidPanics
    \/ \E verb \in StubVerbs : Stub(verb)

\* The last operation was a lookup of the empty id or of the container's own
\* id, and it returned
PrimaryLookup ==
    /\ ret.op \in {"process", "process_mut"}
    /\ ret.id = "" \/ ret.id = container.id
    /\ ret.kind # "panic"

\* C20: process and process_mut called with the empty id or with the
\* container's own id return the primary process, whatever the map holds.
C20_PrimaryLookup == PrimaryLookup => (ret.kind = "Ok" /\ ret.proc = Primary)
C20_Witness ==
    /\ ret.op = "process" /\ ret.id = container.id
    /\ container.processes[container.id] \in Secondaries
    /\ container.processes[""] \in Secondaries
    /\ ret.kind = "Ok" /\ ret.proc = Primary

\* The exec id names a secondary process of the map, by a key that does not
\* denote the primary process
NamesSecondary(c, exec_id) ==
    /\ exec_id # "" /\ exec_id # c.id
    /\ c.processes[exec_id] # NoProc
\* The exec id names the primary process
NamesPrimary(c, exec_id) == exec_id = "" \/ exec_id = c.id

\* C21: a delete whose exec id names a registered secondary process, once the
\* delete of that process has returned Ok, returns the pid, exit status and
\* exit time of that process and leaves the map without its entry, so that
\* process and process_mut of the exec id give NotFound.
C21_DeleteSecondary ==
    [][(task.pc = "removing" /\ task'.pc = "idle" /\ NamesSecondary(container, task.exec_id)) =>
          /\ task.target = container.processes[task.exec_id]
          /\ container.life[task.target] = "deleted"
          /\ ret' = Ret("delete", task.exec_id, "Ok", task.target)
          /\ container'.processes[task.exec_id] = NoProc
          /\ process(container', task.exec_id).kind = "NotFound"
          /\ process_mut(container', task.exec_id).kind = "NotFound"]_vars
C21_Witness ==
    /\ Idle /\ ret.op = "delete" /\ ret.kind = "Ok" /\ ret.proc \in Secondaries
    /\ ret.id \notin {"", container.id}
    /\ container.processes[ret.id] = NoProc
    /\ \E k \in Keys : container.processes[k] # NoProc

\* C22: a delete whose exec id names the primary process (the empty id or the
\* container's own id), the delete of the process having returned Ok, returns
\* Ok with the pid, exit status and exit time of the primary process.
C22_DeletePrimary ==
    (Idle /\ ret.op = "delete" /\ NamesPrimary(container, ret.id)
          /\ ret.kind \notin {"ProcessError", "panic"}) =>
        (ret.kind = "Ok" /\ ret.proc = Primary)

\* The exec id of the request in progress is one the registry knows
KnownTarget == NamesPrimary(container, task.exec_id) \/ NamesSecondary(container, task.exec_id)

\* C23: no operation of a process is invoked for a start, kill or delete
\* request whose exec id is neither empty, nor the container's id, nor a key
\* of the map.
C23_UnknownNotDelegated == task.pc = "delegating" => KnownTarget

\* C24: the process a start or kill is delegated to, for a request whose exec
\* id names a registered secondary process, is that secondary process.
C24_TargetsExec ==
    (task.pc = "delegating" /\ task.op \in {"start", "kill"}
        /\ NamesSecondary(container, task.exec_id)) =>
        task.target = container.processes[task.exec_id]

\* C25: the map never holds the primary process, and the empty id and the
\* container's id resolve to the primary process in every state of a
\* Container, the states with an empty map included.
C25_RegistryInvariant ==
    container.state = "live" =>
        /\ \A k \in Keys : container.processes[k] # Primary
        /\ container.process_self = Primary
        /\ process(container, "") = [kind |-> "Ok", proc |-> Primary]
        /\ process_mut(container, container.id) = [kind |-> "Ok", proc |-> Primary]
C25_Witness ==
    /\ container.state = "live" /\ ret.op = "process_remove" /\ ret.kind = "Some"
    /\ \A k \in Keys : container.processes[k] = NoProc

C27_NoneAfterDelete ==
    (task.pc = "delegating" /\ task.op \in {"start", "kill"}
        /\ NamesPrimary(container, task.exec_id)) =>
        container.life[task.target] # "deleted"

\* The verbs C28 names
NamedStubs == {"exec", "pause", "resume", "resize_pty", "checkpoint", "update"}

\* C28: the error a stubbed verb returns is the error of no other stubbed verb.
C28_DistinctPerVerb ==
    ret.op \in NamedStubs => \A v \in NamedStubs \ {ret.op} : ret.kind # stub(v)

\* The operations that take the lock
LockingOps == {"pid", "process", "process_mut", "process_remove", "process_add",
               "start", "kill", "delete"}

\* C29: with the mutex poisoned, no step changes the Container, no method
\* comes to run with the lock, and every locking operation called panics.
C29_PoisonIsFatal ==
    [][container.mu = "poisoned" =>
          /\ container' = container
          /\ task' = NoTask
          /\ ret'.op \in LockingOps => ret'.kind = "panic"]_vars
C29_Witness ==
    /\ container.mu = "poisoned" /\ ret.op = "delete" /\ ret.kind = "panic"
    /\ \E k \in Keys : container.processes[k] # NoProc

\* C38: when the delete of a secondary process fails, Container::delete
\* returns that error and leaves the registry as it was: the entry is still
\* under its exec id and a lookup of it gives the process.
C38_FailedDeleteKeeps ==
    [][(/\ task.pc = "delegating" /\ task.op = "delete" /\ task'.pc = "idle"
        /\ NamesSecondary(container, task.exec_id)) =>
          /\ ret' = Ret("delete", task.exec_id, "ProcessError", NoProc)
          /\ container'.processes = container.processes
          /\ process(container', task.exec_id) = [kind |-> "Ok", proc |-> task.target]
          /\ process_mut(container', task.exec_id) = [kind |-> "Ok", proc |-> task.target]]_vars
C38_Witness ==
    /\ Idle /\ ret.op = "delete" /\ ret.kind = "ProcessError"
    /\ ret.id \notin {"", container.id}
    /\ container.processes[ret.id] \in Secondaries

(***************************************************************************)
(* Persisted state: options.json and runtime in a bundle directory          *)
(***************************************************************************)

\* The characters of a runtime name: a letter and the line feed
NameChars == {"r", "\n"}
RECURSIVE NamesOfLen(_)
NamesOfLen(n) ==
    IF n = 0 THEN {<< >>}
    ELSE {Append(t, c) : t \in NamesOfLen(n - 1), c \in NameChars}
Names == UNION {NamesOfLen(n) : n \in 0..MaxName}

\* Options: two of its fields, each at its default ("") or set
DefaultOptions == [binary_name |-> "", root |-> ""]
OptionsValues == [binary_name : {"", "runc"}, root : {"", "/r"}]

\* Message::write_to_writer: the fields that are not at their default, in the
\* order of their numbers, each as one tagged value
write_to_writer(o) ==
    (IF o.binary_name = "" THEN << >> ELSE <<"binary_name:runc">>)
    \o (IF o.root = "" THEN << >> ELSE <<"root:/r">>)

\* Message::parse_from_reader: every tagged value read sets its field, the
\* fields not read stay at their default
parse_from_reader(data) ==
    [binary_name |-> IF \E k \in 1..Len(data) : data[k] = "binary_name:runc" THEN "runc" ELSE "",
     root |-> IF \E k \in 1..Len(data) : data[k] = "root:/r" THEN "/r" ELSE ""]

\* A file of the bundle directory
NoFile == [exists |-> FALSE, data |-> << >>]
\* OpenOptions::new().create(true).write(true).open(..) and the data written:
\* the file is created when absent, is not truncated, and is written from its
\* start
Written(f, data) ==
    [exists |-> TRUE,
     data |-> data \o SubSeq(f.data, Len(data) + 1, Len(f.data))]

\* The lines BufRead::read_line delivers: each up to and with its line feed,
\* the last one up to the end of the file
RECURSIVE FirstLine(_)
FirstLine(data) ==
    IF data = << >> THEN << >>
    ELSE IF Head(data) = "\n" THEN <<"\n">>
    ELSE <<Head(data)>> \o FirstLine(Tail(data))
\* read_runtime's loop: read_line appends the next line to buf, which is never
\* cleared, and res gets the whole of buf each time round
RECURSIVE ReadLines(_, _, _)
ReadLines(rest, buf, res) ==
    IF rest = << >> THEN res
    ELSE ReadLines(SubSeq(rest, Len(FirstLine(rest)) + 1, Len(rest)),
                   buf \o FirstLine(rest),
                   res \o buf \o FirstLine(rest))

StoreRet(op, kind, text, opts) == [op |-> op, kind |-> kind, text |-> text, opts |-> opts]
\* name is the string of the last write_runtime call
NoStore ==
    [options |-> NoFile, runtime |-> NoFile, name |-> << >>,
     ret |-> StoreRet("-", "-", << >>, DefaultOptions)]

\* read_options: Ok(None) when the file cannot be opened, the parsed message
\* otherwise
read_options(f) ==
    IF ~f.exists THEN StoreRet("read_options", "None", << >>, DefaultOptions)
    ELSE StoreRet("read_options", "Some", << >>, parse_from_reader(f.data))

\* read_runtime: the error of open by ?, or the text the loop collected
read_runtime(f) ==
    IF ~f.exists THEN StoreRet("read_runtime", "Err", << >>, DefaultOptions)
    ELSE StoreRet("read_runtime", "Ok", ReadLines(f.data, << >>, << >>), DefaultOptions)

\* write_options(path, opts) returns Ok
WriteOptions(o) ==
    /\ store' = [store EXCEPT !.options = Written(@, write_to_writer(o)),
                              !.ret = StoreRet("write_options", "Ok", << >>, o)]
    /\ UNCHANGED <<ioVars, cmdVars, argVars, query, regVars>>

\* write_runtime(path, runtime) returns Ok
WriteRuntime(name) ==
    /\ store' = [store EXCEPT !.runtime = Written(@, name),
                              !.name = name,
                              !.ret = StoreRet("write_runtime", "Ok", name, DefaultOptions)]
    /\ UNCHANGED <<ioVars, cmdVars, argVars, query, regVars>>

\* read_options(path) is called
ReadOptions ==
    /\ store' = [store EXCEPT !.ret = read_options(store.options)]
    /\ UNCHANGED <<ioVars, cmdVars, argVars, query, regVars>>

\* read_runtime(path) is called
ReadRuntime ==
    /\ store' = [store EXCEPT !.ret = read_runtime(store.runtime)]
    /\ UNCHANGED <<ioVars, cmdVars, argVars, query, regVars>>

NextStore ==
    \/ \E o \in OptionsValues : WriteOptions(o)
    \/ \E name \in Names : WriteRuntime(name)
    \/ ReadOptions
    \/ ReadRuntime

\* C30: reading from a bundle directory in which the file is absent is no
\* error: read_options returns Ok(None) and read_runtime returns Ok.
C30_AbsentIsNoError ==
    /\ (store.ret.op = "read_options" /\ ~store.options.exists) => store.ret.kind = "None"
    /\ (store.ret.op = "read_runtime" /\ ~store.runtime.exists) => store.ret.kind = "Ok"

\* C31: the runtime name round-trips: after any sequence of write_runtime
\* calls, read_runtime returns exactly the string of the last write.
C31_RuntimeRoundTrip ==
    (store.ret.op = "read_runtime" /\ store.runtime.exists)
        => (store.ret.kind = "Ok" /\ store.ret.text = store.name)

(***************************************************************************)
(* Specifications                                                          *)
(***************************************************************************)

\* Nothing has been built or called yet: an empty descriptor table, no
\* RuncPipedIO, no Command, no call in progress.
Init ==
    /\ fdtab = [n \in Fds |-> Free]
    /\ ios = [i \in IOs |-> NoIO]
    /\ cmd = NoCmd
    /\ lastOp = Op("init", 0, TRUE, FALSE, FALSE, 0, FALSE)
    /\ call = NoCall
    /\ child = NoChild
    /\ result = NoResult
    /\ argv = NoArgv
    /\ prev = NoArgv
    /\ query = NoQuery
    /\ container = NoContainer
    /\ ret = NoRet
    /\ task = NoTask
    /\ store = NoStore

\* The I/O layer on its own.
SpecIO == Init /\ [][NextIO]_vars

\* The invoker on its own.
SpecCmd == Init /\ [][NextCmd]_vars

\* The invoker with the timer of time::timeout firing when it is due and the
\* runtime polling a future that is ready.
FairCmd == SpecCmd /\ WF_vars(Timeout) /\ WF_vars(WaitReturns)

\* The verb methods on their own.
SpecArgs == Init /\ [][NextArgs]_vars

\* list and ps on their own.
SpecQuery == Init /\ [][NextQuery]_vars

\* The registry on its own.
SpecReg == Init /\ [][NextReg]_vars

\* The files of the bundle directory on their own.
SpecStore == Init /\ [][NextStore]_vars

=============================================================================
